---- MODULE Spec2Model ----
(***************************************************************************)
(* A model of micrograd-rust (src/src/lib.rs): a scalar reverse-mode       *)
(* automatic differentiation engine.  Nodes (Var) live in an arena that    *)
(* only grows; a node refers to its operands by their arena index (the     *)
(* borrowed references ch1/ch2 of the source), 0 standing for None.        *)
(* f64 values are modelled by integers: every value and gradient the       *)
(* model computes is an integer of small magnitude, on which f64           *)
(* arithmetic is exact.                                                    *)
(***************************************************************************)
EXTENDS Integers, Sequences, FiniteSets

\* ---- bounds of the model ------------------------------------------------
MaxNodes == 3          \* nodes a caller constructs, starting from nothing
MaxDeepNodes == 4      \* the same, for the graphs with a shared node under a shared node
MaxTestOps == 2        \* nodes a caller constructs on top of three leaves
MaxPasses == 2         \* backward() calls
MaxAbs == 30           \* magnitude of the values constructed
LeafVals == {2, 3}     \* values given to new_var
TestVals == {3, 4, 10} \* values of the three leaves of test_all
Exps == {2, 3}         \* exponents given to pow

VARIABLES
    nodes,      \* the arena: sequence of Var records, in construction order
    budget,     \* how many more nodes the caller constructs
    passes,     \* number of backward() calls made so far
    root,       \* the node the last backward() was called on (0: none yet)
    pre,        \* the grads of all nodes when the last backward() was called
    log,        \* the operand updates of the last backward(), in order:
                \*   <<n, s>> is "node n added its contribution to operand s"
    panicked    \* TRUE once an Option::unwrap() on None has aborted the program

vars == <<nodes, budget, passes, root, pre, log, panicked>>

None == 0

Abs(x) == IF x < 0 THEN -x ELSE x

\* ---- Operation catalog (trait Operation and its five impls) --------------
RECURSIVE powf(_, _)
powf(a, p) == IF p = 0 THEN 1 ELSE a * powf(a, p - 1)

NoOP_op(a, b) == 0
NoOP_grad(a, b) == 0

AddOP_op(a, b) == a + b
AddOP_grad(a, b) == 1

NegOp_op(a, b) == -a
NegOp_grad(a, b) == -1

MulOp_op(a, b) == a * b
\* a product rule that hands each operand its own value
MulOp_grad_own(a, b) == a
MulOp_grad(a, b) == b

PowOp_op(p, a, b) == powf(a, p)
PowOp_grad(p, a, b) == p * powf(a, p - 1)

NoOP == [tag |-> "NoOP", p |-> 0]
AddOP == [tag |-> "AddOP", p |-> 0]
NegOp == [tag |-> "NegOp", p |-> 0]
MulOp == [tag |-> "MulOp", p |-> 0]
PowOp(p) == [tag |-> "PowOp", p |-> p]

\* dynamic dispatch through Box<dyn Operation>
op(o, a, b) ==
    CASE o.tag = "NoOP" -> NoOP_op(a, b)
      [] o.tag = "AddOP" -> AddOP_op(a, b)
      [] o.tag = "NegOp" -> NegOp_op(a, b)
      [] o.tag = "MulOp" -> MulOp_op(a, b)
      [] o.tag = "PowOp" -> PowOp_op(o.p, a, b)

grad(o, a, b) ==
    CASE o.tag = "NoOP" -> NoOP_grad(a, b)
      [] o.tag = "AddOP" -> AddOP_grad(a, b)
      [] o.tag = "NegOp" -> NegOp_grad(a, b)
      [] o.tag = "MulOp" -> MulOp_grad(a, b)
      [] o.tag = "PowOp" -> PowOp_grad(o.p, a, b)

\* ---- the node type and its factories -------------------------------------
Var(value, ch1, ch2, operation) ==
    [value |-> value, grad |-> 0, visited |-> FALSE,
     ch1 |-> ch1, ch2 |-> ch2, operation |-> operation]

new_var(value) == Var(value, None, None, NoOP)

\* a forward evaluation that reads the first operand twice
combine_same(ns, x, y, o) == Var(op(o, ns[x].value, ns[x].value), x, y, o)
combine(ns, x, y, o) == Var(op(o, ns[x].value, ns[y].value), x, y, o)

add(ns, self, o) == combine(ns, self, o, AddOP)

neg(ns, self) == Var(NegOp_op(ns[self].value, 0), self, None, NegOp)

mul(ns, self, o) == combine(ns, self, o, MulOp)

pow(ns, self, p) == Var(PowOp_op(p, ns[self].value, p), self, None, PowOp(p))

\* ---- backward pass -------------------------------------------------------
RECURSIVE reset_vis(_, _)
reset_vis(ns, self) ==
    LET n0 == [ns EXCEPT ![self].visited = FALSE]
        n1 == IF ns[self].ch1 # None THEN reset_vis(n0, ns[self].ch1) ELSE n0
    IN  IF ns[self].ch2 # None THEN reset_vis(n1, ns[self].ch2) ELSE n1

\* A pass state: the arena, the log of operand updates, and whether an
\* unwrap() of None has panicked (after which nothing more is executed).

\* lines 117-121: the update of ch1's grad; ch2.unwrap() panics on None
\* before grad.set() is reached.
update_ch1(st, self) ==
    LET v == st.ns[self]
    IN  IF st.panicked \/ v.ch1 = None THEN st
        ELSE IF v.ch2 = None THEN [st EXCEPT !.panicked = TRUE]
        ELSE [st EXCEPT
                !.ns[v.ch1].grad =
                    v.grad * grad(v.operation, st.ns[v.ch1].value, st.ns[v.ch2].value)
                    + st.ns[v.ch1].grad,
                !.log = Append(@, <<self, 1>>)]

\* an update of ch2's grad that overwrites what ch2 has accumulated
update_ch2_overwrite(st, self) ==
    LET v == st.ns[self]
    IN  IF st.panicked \/ v.ch2 = None THEN st
        ELSE IF v.ch1 = None THEN [st EXCEPT !.panicked = TRUE]
        ELSE [st EXCEPT
                !.ns[v.ch2].grad =
                    v.grad * grad(v.operation, st.ns[v.ch2].value, st.ns[v.ch1].value),
                !.log = Append(@, <<self, 2>>)]

\* lines 122-126: the update of ch2's grad
update_ch2(st, self) ==
    LET v == st.ns[self]
    IN  IF st.panicked \/ v.ch2 = None THEN st
        ELSE IF v.ch1 = None THEN [st EXCEPT !.panicked = TRUE]
        ELSE [st EXCEPT
                !.ns[v.ch2].grad =
                    v.grad * grad(v.operation, st.ns[v.ch2].value, st.ns[v.ch1].value)
                    + st.ns[v.ch2].grad,
                !.log = Append(@, <<self, 2>>)]

RECURSIVE _backward(_, _)
_backward(st, self) ==
    LET v  == st.ns[self]
        s1 == update_ch1(st, self)
        s2 == update_ch2(s1, self)
        s3 == IF ~s2.panicked /\ v.ch1 # None THEN _backward(s2, v.ch1) ELSE s2
    IN  IF ~s3.panicked /\ v.ch2 # None THEN _backward(s3, v.ch2) ELSE s3

\* a backward() that zeroes every grad of the arena before seeding the root
backward_zeroing(ns, self) ==
    LET zeroed == [i \in DOMAIN ns |-> [ns[i] EXCEPT !.grad = 0]]
        seeded == [zeroed EXCEPT ![self].grad = 1]
        reset  == reset_vis(seeded, self)
    IN  _backward([ns |-> reset, log |-> <<>>, panicked |-> FALSE], self)

backward(ns, self) ==
    LET seeded == [ns EXCEPT ![self].grad = 1]
        reset  == reset_vis(seeded, self)
    IN  _backward([ns |-> reset, log |-> <<>>, panicked |-> FALSE], self)

\* ---- the state machine ---------------------------------------------------
Init ==
    /\ nodes = <<>>
    /\ budget = MaxNodes
    /\ passes = 0
    /\ root = 0
    /\ pre = <<>>
    /\ log = <<>>
    /\ panicked = FALSE

Idx == 1..Len(nodes)

\* a caller constructs a node and keeps it in the arena
Push(v) ==
    /\ ~panicked
    /\ budget > 0
    /\ Abs(v.value) <= MaxAbs
    /\ nodes' = Append(nodes, v)
    /\ budget' = budget - 1
    /\ UNCHANGED <<passes, root, pre, log, panicked>>

NewVar ==
    /\ ~panicked
    /\ \E value \in LeafVals : Push(new_var(value))

Add == \E x \in Idx, y \in Idx : Push(add(nodes, x, y))

Neg == \E x \in Idx : Push(neg(nodes, x))

Mul == \E x \in Idx, y \in Idx : Push(mul(nodes, x, y))

Pow == \E x \in Idx, p \in Exps : Push(pow(nodes, x, p))

Backward ==
    \E r \in Idx :
        /\ ~panicked
        /\ passes < MaxPasses
        /\ LET st == backward(nodes, r)
           IN  /\ nodes' = st.ns
               /\ log' = st.log
               /\ panicked' = st.panicked
        /\ pre' = [i \in Idx |-> nodes[i].grad]
        /\ root' = r
        /\ passes' = passes + 1
        /\ UNCHANGED budget

Next == NewVar \/ Add \/ Neg \/ Mul \/ Pow \/ Backward

Spec == Init /\ [][Next]_vars

\* the same program, building graphs one node deeper
InitDeep ==
    /\ nodes = <<>>
    /\ budget = MaxDeepNodes
    /\ passes = 0
    /\ root = 0
    /\ pre = <<>>
    /\ log = <<>>
    /\ panicked = FALSE

SpecDeep == InitDeep /\ [][Next]_vars

\* test_all (lines 135-137): the caller starts from three leaves a, x, b
InitTest ==
    /\ \E a \in TestVals, x \in TestVals, b \in TestVals :
           nodes = <<new_var(a), new_var(x), new_var(b)>>
    /\ budget = MaxTestOps
    /\ passes = 0
    /\ root = 0
    /\ pre = <<>>
    /\ log = <<>>
    /\ panicked = FALSE

SpecTest == InitTest /\ [][Next]_vars

\* ---- vocabulary of the properties ----------------------------------------
IsLeaf(n) == nodes[n].operation.tag = "NoOP"

child(n, s) == IF s = 1 THEN nodes[n].ch1 ELSE nodes[n].ch2

\* the nodes reachable from r along operand references
RECURSIVE Reach(_)
Reach(r) ==
    {r} \cup (IF nodes[r].ch1 # None THEN Reach(nodes[r].ch1) ELSE {})
        \cup (IF nodes[r].ch2 # None THEN Reach(nodes[r].ch2) ELSE {})

\* the parent->operand edges reachable from r: <<m, s>> is operand s of m
Edges(r) == {e \in Reach(r) \X {1, 2} : child(e[1], e[2]) # None}

\* the catalog of section 4.1: local derivative of node m w.r.t. its operand s
LocalDerivative(m, s) ==
    LET o == nodes[m].operation
        a == nodes[child(m, s)].value
    IN  CASE o.tag = "AddOP" -> 1
          [] o.tag = "NegOp" -> -1
          [] o.tag = "MulOp" -> nodes[child(m, 3 - s)].value
          [] o.tag = "PowOp" -> o.p * powf(a, o.p - 1)

\* d r.value / d n.value: the sum over the operand paths from r to n of the
\* product of the local derivatives along the path
RECURSIVE Partial(_, _)
Partial(r, n) ==
    IF r = n THEN 1
    ELSE (IF nodes[r].ch1 # None
            THEN LocalDerivative(r, 1) * Partial(nodes[r].ch1, n) ELSE 0)
       + (IF nodes[r].ch2 # None
            THEN LocalDerivative(r, 2) * Partial(nodes[r].ch2, n) ELSE 0)

\* the catalog of section 4.1: forward function of node n on its operands
Forward(n) ==
    LET o == nodes[n].operation
        a == nodes[nodes[n].ch1].value
    IN  CASE o.tag = "AddOP" -> a + nodes[nodes[n].ch2].value
          [] o.tag = "NegOp" -> -a
          [] o.tag = "MulOp" -> a * nodes[nodes[n].ch2].value
          [] o.tag = "PowOp" -> powf(a, o.p)

Count(seq, e) == Cardinality({k \in 1..Len(seq) : seq[k] = e})

PassRun == passes > 0
PassReturned == passes > 0 /\ ~panicked
\* every node that existed when the last backward() was called had grad 0
GradsWereZero == \A i \in 1..Len(pre) : pre[i] = 0

\* ---- C1 ------------------------------------------------------------------
\* C1: after backward() on a root of a graph whose grads were all 0, the grad
\* of every node reachable from the root is the partial derivative of the
\* root's value with respect to that node's value, shared non-leaf nodes
\* included.
C1_GradIsPartialDerivative ==
    (PassReturned /\ GradsWereZero) =>
        \A n \in Reach(root) : nodes[n].grad = Partial(root, n)

\* ---- C2 ------------------------------------------------------------------
\* C2: no step of a pass adds a node's grad into its operands while some
\* parent edge of that node, reachable from the root, has not yet contributed.
C2_AllParentsBeforePropagation ==
    PassRun =>
        \A k \in 1..Len(log) :
            \A e \in Edges(root) :
                child(e[1], e[2]) = log[k][1] =>
                    \E j \in 1..(k - 1) : log[j] = e

\* ---- C3 ------------------------------------------------------------------
\* C3: in one pass every parent->operand edge reachable from the root adds
\* its contribution to the operand's grad exactly once.
C3_EachEdgeExactlyOnce ==
    PassReturned => \A e \in Edges(root) : Count(log, e) = 1

\* ---- C4 ------------------------------------------------------------------
\* the last backward() was called on t = r.add(b) with r = a.mul(x), over
\* three leaves a, x, b and with a, x, b and r at grad 0
ProductCase(a, x, b, r, t) ==
    /\ PassRun /\ root = t
    /\ nodes[t].operation.tag = "AddOP" /\ nodes[t].ch1 = r /\ nodes[t].ch2 = b
    /\ nodes[r].operation.tag = "MulOp" /\ nodes[r].ch1 = a /\ nodes[r].ch2 = x
    /\ IsLeaf(a) /\ IsLeaf(x) /\ IsLeaf(b)
    /\ Cardinality({a, x, b}) = 3
    /\ pre[a] = 0 /\ pre[x] = 0 /\ pre[b] = 0 /\ pre[r] = 0

\* C4: product rule: backward() on t = (a*x) + b yields x.grad = a.value,
\* a.grad = x.value and b.grad = 1.
C4_ProductRule ==
    LET t == root
        r == nodes[t].ch1
        b == nodes[t].ch2
        a == nodes[r].ch1
        x == nodes[r].ch2
    IN  ProductCase(a, x, b, r, t) =>
            /\ ~panicked
            /\ nodes[x].grad = nodes[a].value
            /\ nodes[a].grad = nodes[x].value
            /\ nodes[b].grad = 1

\* the case of test_all: a = 4, x = 3, b = 10
C4_Witness ==
    /\ Len(nodes) >= 5
    /\ ProductCase(1, 2, 3, 4, 5)
    /\ nodes[1].value = 4 /\ nodes[2].value = 3 /\ nodes[3].value = 10
    /\ nodes[2].grad = 4 /\ nodes[1].grad = 3 /\ nodes[3].grad = 1

\* ---- C5 ------------------------------------------------------------------
\* C5: negate rule: backward() on a.neg(), a a leaf with grad 0, completes
\* and yields a.grad = -1.
C5_NegateRule ==
    \A a \in Idx :
        (/\ PassRun /\ nodes[root].operation.tag = "NegOp"
         /\ nodes[root].ch1 = a /\ IsLeaf(a) /\ pre[a] = 0)
        => (~panicked /\ nodes[a].grad = -1)

\* ---- C6 ------------------------------------------------------------------
\* C6: power rule: backward() on f = a.pow(p), a a leaf with grad 0,
\* completes and yields a.grad = p * a^(p-1); the Power node has one operand.
C6_PowerRule ==
    \A a \in Idx :
        (/\ PassRun /\ nodes[root].operation.tag = "PowOp"
         /\ nodes[root].ch1 = a /\ IsLeaf(a) /\ pre[a] = 0)
        => /\ nodes[root].ch2 = None
           /\ ~panicked
           /\ nodes[a].grad
                = nodes[root].operation.p
                    * powf(nodes[a].value, nodes[root].operation.p - 1)

\* ---- C7 ------------------------------------------------------------------
\* the last backward() was called on s = y.add(y), y a leaf with grad 0
SharedLeafCase(y) ==
    /\ PassRun /\ nodes[root].operation.tag = "AddOP"
    /\ nodes[root].ch1 = y /\ nodes[root].ch2 = y
    /\ IsLeaf(y) /\ pre[y] = 0

\* C7: shared-leaf accumulation: backward() on s = y.add(y) yields
\* y.grad = 2, the sum of the contributions of both edges.
C7_SharedLeafAccumulation ==
    \A y \in Idx : SharedLeafCase(y) => (~panicked /\ nodes[y].grad = 2)

C7_Witness == \E y \in Idx : SharedLeafCase(y) /\ nodes[y].grad = 2

\* ---- C8 ------------------------------------------------------------------
ForwardConsistent ==
    \A n \in Idx : ~IsLeaf(n) => nodes[n].value = Forward(n)

ValuesFrozen ==
    /\ Len(nodes') >= Len(nodes)
    /\ \A n \in Idx : nodes'[n].value = nodes[n].value

\* C8: in every reachable state the value of every non-leaf node is its
\* operation's forward function of the current values of its operands, and
\* no step (construction or backward()) changes the value of a node.
C8_ValueRoundTrip == [](ForwardConsistent) /\ [][ValuesFrozen]_vars

\* two passes have run over a graph holding a product and a power
C8_Witness ==
    /\ passes = 2 /\ ~panicked
    /\ \E m \in Reach(root) :
          nodes[m].operation.tag = "MulOp" /\ nodes[m].grad # 0
    /\ \E n \in Idx : nodes[n].operation.tag = "PowOp"
    /\ ForwardConsistent

\* ---- C9 ------------------------------------------------------------------
\* this step is a call of backward() on a leaf
BackwardOnLeaf == passes' = passes + 1 /\ IsLeaf(root')

\* C9: backward() on a leaf sets its own grad to 1 and leaves the grad and
\* value of every other existing node unchanged.
C9_LeafBackwardFrame ==
    [][BackwardOnLeaf =>
        /\ ~panicked'
        /\ Len(nodes') = Len(nodes)
        /\ nodes'[root'].grad = 1
        /\ nodes'[root'].value = nodes[root'].value
        /\ \A i \in Idx : i # root' =>
              /\ nodes'[i].grad = nodes[i].grad
              /\ nodes'[i].value = nodes[i].value]_vars

\* backward() has run on a leaf that is an operand of a node whose grad,
\* left by an earlier pass, is not 0
C9_Witness ==
    /\ PassReturned /\ IsLeaf(root) /\ nodes[root].grad = 1 /\ log = <<>>
    /\ \E i \in Idx :
          /\ nodes[i].ch1 = root
          /\ nodes[i].grad # 0 /\ nodes[i].grad = pre[i]

\* ---- C10 -----------------------------------------------------------------
\* C10: backward() on any node of any graph built from the five factories
\* returns normally, after every reachable node has been processed: it never
\* aborts and every reachable edge has contributed.
C10_BackwardCompletes ==
    PassRun => (~panicked /\ \A e \in Edges(root) : Count(log, e) >= 1)

====
